---------------------------- MODULE Spec2Model ----------------------------
(***************************************************************************)
(* Compartmental epidemic models: SIRWithDemography, SEIRModel and         *)
(* SEIRModelWithSeasonality (a subclass of SEIRModel).                     *)
(*                                                                         *)
(* Numbers.  The program computes on Python floats; the model computes on  *)
(* exact rationals written as integer numerators over a scale.  A          *)
(* compartment value v at scale `one` stands for v / one, so `one` is the  *)
(* numerator of 1.0.  Rate constants and the seasonal amplitude are        *)
(* integers.  A derivative function takes its state at scale `one` and     *)
(* returns the derivative at scale one * one, which keeps every product    *)
(* of the source exact: beta*S*I is beta*S*I, sigma*E is sigma*E*one and   *)
(* the bare birth term mu is mu*one*one.                                   *)
(*                                                                         *)
(* Time.  The model's time unit is a quarter of the 365-day period, so     *)
(* that cos(2*pi*t/365) takes the exact values 1, 0, -1, 0.                *)
(***************************************************************************)
EXTENDS Integers, Sequences, FiniteSets, TLC

\* Numerator of 1.0 in the initial conditions (compartments are k / Unit).
Unit == 3

\* Longest time grid handed to simulate and to the plotting methods.
MaxLen == 3

\* Rate constants and amplitudes handed to the constructors.
Rates == {-1, 1, 2}
Amps == {0, 1, 2}

\* First time point of a grid.
GridStarts == {0}

\* Values an output row can hold when the solver gave up before filling it.
JunkVals == {0, -1}

Classes == {"SIRWithDemography", "SEIRModel", "SEIRModelWithSeasonality"}
SEIRClasses == {"SEIRModel", "SEIRModelWithSeasonality"}

VARIABLES
    cls,        \* class of the model instance, "none" before construction
    self,       \* the instance's attributes, by name
    lastCall,   \* the method called last
    args,       \* the time grid passed to the last call (<<>> if it takes none)
    raised,     \* the exception the last call raised, "none" if it returned
    istate,     \* the solver's status in the last simulate (odeint discards it)
    plotted,    \* the lines the last call handed to plt.plot (<<>> if none)
    call,       \* a direct evaluation of a derivative function: input, output
    sims        \* simulate calls completed on the instance: none, one, many

vars == <<cls, self, lastCall, args, raised, istate, plotted, call, sims>>

--------------------------------------------------------------------------
(* Helpers on sequences and matrices *)

RECURSIVE SumSeq(_)
SumSeq(s) == IF s = <<>> THEN 0 ELSE Head(s) + SumSeq(Tail(s))

Min(a, b) == IF a < b THEN a ELSE b

\* numpy: m.T for a two-dimensional array with ncols columns
Transpose(m, ncols) == [c \in 1..ncols |-> [r \in 1..Len(m) |-> m[r][c]]]

\* numpy: a[::step] along the first axis (elements 0, step, 2*step, ...)
SliceStep(a, step) ==
    [k \in 1..((Len(a) + step - 1) \div step) |-> a[(k - 1) * step + 1]]

\* numpy: a[:n]
Prefix(a, n) == [k \in 1..Min(n, Len(a)) |-> a[k]]

\* np.cos(2 * np.pi * t / 365), t in quarter periods
cos_2pi_t_365(t) ==
    CASE t % 4 = 0 -> 1
      [] t % 4 = 1 -> 0
      [] t % 4 = 2 -> -1
      [] t % 4 = 3 -> 0

--------------------------------------------------------------------------
(* Constructors *)

\* Variant: the constructor also creates an empty result.
SEIRModel_init_with_results(beta, gamma, sigma, initial_conditions) ==
    [beta |-> beta, gamma |-> gamma, sigma |-> sigma,
     initial_conditions |-> initial_conditions, results |-> <<>>]

SEIRModel_init(beta, gamma, sigma, initial_conditions) ==
    [beta |-> beta, gamma |-> gamma, sigma |-> sigma,
     initial_conditions |-> initial_conditions]

SEIRModelWithSeasonality_init(beta0, beta1, gamma, sigma, initial_conditions) ==
    ("beta1" :> beta1) @@ SEIRModel_init(beta0, gamma, sigma, initial_conditions)

SIRWithDemography_init(beta, gamma, mu, initial_conditions) ==
    [beta |-> beta, gamma |-> gamma, mu |-> mu,
     initial_conditions |-> initial_conditions]

--------------------------------------------------------------------------
(* Derivative functions: y at scale one, result at scale one * one *)

\* Variant: the exposed compartment is never left (no - sigma * E in dE/dt).
seir_equations_no_outflow(obj, y, t, one) ==
    LET S == y[1]
        E == y[2]
        I == y[3]
        dSdt == -(obj.beta * S * I)
        dEdt == obj.beta * S * I
        dIdt == obj.sigma * E * one - obj.gamma * I * one
        dRdt == obj.gamma * I * one
    IN  <<dSdt, dEdt, dIdt, dRdt>>

seir_equations(obj, y, t, one) ==
    LET S == y[1]
        E == y[2]
        I == y[3]
        R == y[4]
        dSdt == -(obj.beta * S * I)
        dEdt == obj.beta * S * I - obj.sigma * E * one
        dIdt == obj.sigma * E * one - obj.gamma * I * one
        dRdt == obj.gamma * I * one
    IN  <<dSdt, dEdt, dIdt, dRdt>>

\* Variant: the forcing replaces the baseline instead of modulating it
\* (beta0 * beta1 * cos(...) instead of beta0 * (1 + beta1 * cos(...))).
seir_seasonal_equations_no_baseline(obj, y, t, one) ==
    LET S == y[1]
        E == y[2]
        I == y[3]
        beta_t == obj.beta * (obj.beta1 * cos_2pi_t_365(t))
        dSdt == -(beta_t * S * I)
        dEdt == beta_t * S * I - obj.sigma * E * one
        dIdt == obj.sigma * E * one - obj.gamma * I * one
        dRdt == obj.gamma * I * one
    IN  <<dSdt, dEdt, dIdt, dRdt>>

seir_seasonal_equations(obj, y, t, one) ==
    LET S == y[1]
        E == y[2]
        I == y[3]
        R == y[4]
        beta_t == obj.beta * (1 + obj.beta1 * cos_2pi_t_365(t))
        dSdt == -(beta_t * S * I)
        dEdt == beta_t * S * I - obj.sigma * E * one
        dIdt == obj.sigma * E * one - obj.gamma * I * one
        dRdt == obj.gamma * I * one
    IN  <<dSdt, dEdt, dIdt, dRdt>>

\* Variant: deaths without births (no mu term in dS/dt).
sir_demography_equations_no_births(obj, y, t, one) ==
    LET S == y[1]
        I == y[2]
        R == y[3]
        dSdt == -(obj.beta * S * I) - obj.mu * S * one
        dIdt == obj.beta * S * I - obj.gamma * I * one - obj.mu * I * one
        dRdt == obj.gamma * I * one - obj.mu * R * one
    IN  <<dSdt, dIdt, dRdt>>

\* Variant: infection at rate beta * S, whether or not anyone is infected.
sir_demography_equations_no_contact(obj, y, t, one) ==
    LET S == y[1]
        I == y[2]
        R == y[3]
        dSdt == obj.mu * one * one - obj.beta * S * one - obj.mu * S * one
        dIdt == obj.beta * S * one - obj.gamma * I * one - obj.mu * I * one
        dRdt == obj.gamma * I * one - obj.mu * R * one
    IN  <<dSdt, dIdt, dRdt>>

sir_demography_equations(obj, y, t, one) ==
    LET S == y[1]
        I == y[2]
        R == y[3]
        dSdt == obj.mu * one * one - obj.beta * S * I - obj.mu * S * one
        dIdt == obj.beta * S * I - obj.gamma * I * one - obj.mu * I * one
        dRdt == obj.gamma * I * one - obj.mu * R * one
    IN  <<dSdt, dIdt, dRdt>>

--------------------------------------------------------------------------
(* Integrator *)

\* Scale of the k-th row reached from the initial conditions: every step
\* squares the scale of the row it starts from.
RECURSIVE Den(_)
Den(k) == IF k = 1 THEN Unit ELSE Den(k - 1) * Den(k - 1)

\* Scale of the rows of a stored result with n rows.
ResultScale(n) == Den(n)

\* A bound method handed to odeint: the method's name and its instance.
BoundMethod(name, obj) == [name |-> name, obj |-> obj]

\* func(y, t) for a bound method func
Apply(func, y, t, one) ==
    CASE func.name = "seir_equations" -> seir_equations(func.obj, y, t, one)
      [] func.name = "seir_seasonal_equations" ->
            seir_seasonal_equations(func.obj, y, t, one)
      [] func.name = "sir_demography_equations" ->
            sir_demography_equations(func.obj, y, t, one)

\* The rows that follow `rows` on the grid t, up to row `last`; row k is
\* at scale Den(k) and is taken from row k-1 by one explicit step of
\* length t[k] - t[k-1].
RECURSIVE Integrate(_, _, _, _)
Integrate(func, rows, t, last) ==
    LET k == Len(rows)
    IN  IF k >= last THEN rows
        ELSE LET prev == rows[k]
                 d == Apply(func, prev, t[k], Den(k))
                 h == t[k + 1] - t[k]
                 next == [i \in 1..Len(prev) |-> prev[i] * Den(k) + h * d[i]]
             IN  Integrate(func, Append(rows, next), t, last)

\* scipy.integrate.odeint(func, y0, t): one row per point of t, row 0 = y0,
\* all rows brought to the scale ResultScale(Len(t)).  LSODA is outside the
\* repository; it is taken to advance by explicit steps (Integrate).
\* failAt = 0: the solver succeeds.  failAt = j > 0: the solver gives up
\* after j rows; odeint warns, does not raise, and returns the array with
\* the remaining rows left as they were allocated (junk).
odeint(func, y0, t, failAt, junk) ==
    LET n == Len(t)
        valid == IF failAt = 0 THEN n ELSE failAt
        rows == Integrate(func, <<y0>>, t, valid)
    IN  [k \in 1..n |->
            IF k <= valid
            THEN [i \in 1..Len(y0) |-> rows[k][i] * (Den(n) \div Den(k))]
            ELSE [i \in 1..Len(y0) |-> junk]]

--------------------------------------------------------------------------
(* simulate: each returns the instance after the call *)

\* Variant: the rows of a call are appended to the rows already stored.
SEIRModel_simulate_accumulating(obj, t, failAt, junk) ==
    LET new == odeint(BoundMethod("seir_equations", obj),
                      obj.initial_conditions, t, failAt, junk)
        old == IF "results" \in DOMAIN obj THEN obj.results ELSE <<>>
    IN  ("results" :> (old \o new)) @@ obj

SEIRModel_simulate(obj, t, failAt, junk) ==
    ("results" :> odeint(BoundMethod("seir_equations", obj),
                         obj.initial_conditions, t, failAt, junk)) @@ obj

SEIRModelWithSeasonality_simulate(obj, t, failAt, junk) ==
    ("results" :> odeint(BoundMethod("seir_seasonal_equations", obj),
                         obj.initial_conditions, t, failAt, junk)) @@ obj

SIRWithDemography_simulate(obj, t, failAt, junk) ==
    ("results" :> odeint(BoundMethod("sir_demography_equations", obj),
                         obj.initial_conditions, t, failAt, junk)) @@ obj

--------------------------------------------------------------------------
(* Plotting: each returns the exception raised and the lines plotted *)

HasResults(obj) == "results" \in DOMAIN obj

Line(x, y, label) == [x |-> x, y |-> y, label |-> label]

\* plt.plot(x, y) raises ValueError when x and y differ in length
SameLength(x, y) == Len(x) = Len(y)

Outcome(exc, lines) == [raised |-> exc, plotted |-> lines]

SEIRModel_plot_results(obj, t) ==
    IF ~HasResults(obj) THEN Outcome("AttributeError", <<>>)
    ELSE LET c == Transpose(obj.results, 4)
         IN  IF ~SameLength(t, c[1]) THEN Outcome("ValueError", <<>>)
             ELSE Outcome("none",
                    <<Line(t, c[1], "Susceptible"), Line(t, c[2], "Exposed"),
                      Line(t, c[3], "Infected"), Line(t, c[4], "Recovered")>>)

\* The subclass's own plot_results: the same lines under another title
SEIRModelWithSeasonality_plot_results(obj, t) ==
    IF ~HasResults(obj) THEN Outcome("AttributeError", <<>>)
    ELSE LET c == Transpose(obj.results, 4)
         IN  IF ~SameLength(t, c[1]) THEN Outcome("ValueError", <<>>)
             ELSE Outcome("none",
                    <<Line(t, c[1], "Susceptible"), Line(t, c[2], "Exposed"),
                      Line(t, c[3], "Infected"), Line(t, c[4], "Recovered")>>)

SIRWithDemography_plot_results(obj, t) ==
    IF ~HasResults(obj) THEN Outcome("AttributeError", <<>>)
    ELSE LET c == Transpose(obj.results, 3)
         IN  IF ~SameLength(t, c[1]) THEN Outcome("ValueError", <<>>)
             ELSE Outcome("none",
                    <<Line(t, c[1], "Susceptible"), Line(t, c[2], "Infected"),
                      Line(t, c[3], "Recovered")>>)

\* S, I, _ = self.results.T[::10]: the slice runs over the rows of the
\* transpose, i.e. over the four compartments, and the unpacking needs
\* exactly three items.
SEIRModel_plot_phase_portrait(obj) ==
    IF ~HasResults(obj) THEN Outcome("AttributeError", <<>>)
    ELSE LET parts == SliceStep(Transpose(obj.results, 4), 10)
         IN  IF Len(parts) # 3 THEN Outcome("ValueError", <<>>)
             ELSE Outcome("none", <<Line(parts[1], parts[2], "Phase Portrait")>>)

\* S, I, _ = self.results.T
SIRWithDemography_plot_phase_portrait(obj) ==
    IF ~HasResults(obj) THEN Outcome("AttributeError", <<>>)
    ELSE LET parts == Transpose(obj.results, 3)
         IN  IF Len(parts) # 3 THEN Outcome("ValueError", <<>>)
             ELSE Outcome("none", <<Line(parts[1], parts[2], "Phase Portrait")>>)

\* The spectrum's values (a complex FFT) are not computed: the line records
\* the series the FFT is taken of and how many amplitudes are plotted.
SEIRModel_plot_fourier_transform(obj, t) ==
    IF ~HasResults(obj) THEN Outcome("AttributeError", <<>>)
    ELSE LET I == Transpose(obj.results, 4)[3]
             N == Len(t)
         IN  IF N < 2 THEN Outcome("IndexError", <<>>)
             ELSE LET xf == [k \in 1..(N \div 2) |-> k - 1]
                      amp == Prefix(I, N \div 2)
                  IN  IF ~SameLength(xf, amp) THEN Outcome("ValueError", <<>>)
                      ELSE Outcome("none",
                             <<Line(xf, [fft_of |-> I, n |-> Len(amp)], "")>>)

--------------------------------------------------------------------------
(* Inputs *)

Grid(start, n) == [k \in 1..n |-> start + k - 1]
Grids == {Grid(s, n) : s \in GridStarts, n \in 1..MaxLen}

\* All n-tuples over V
Tuples(n, V) == [1..n -> V]

\* Valid initial conditions: non-negative fractions summing to 1
ValidIC(y) == (\A i \in DOMAIN y : y[i] >= 0) /\ SumSeq(y) = Unit

NCols(c) == IF c = "SIRWithDemography" THEN 3 ELSE 4

\* Initial conditions tried: the valid ones, and a few that are negative or
\* do not sum to 1
InitialConditions(n) ==
    {y \in Tuples(n, 0..Unit) : SumSeq(y) = Unit}
    \cup {[i \in 1..n |-> IF i = 1 THEN Unit + 1 ELSE IF i = 2 THEN -1 ELSE 0],
          [i \in 1..n |-> IF i = 1 THEN Unit ELSE IF i = 2 THEN 1 ELSE 0],
          [i \in 1..n |-> 0]}

NoCall == [method |-> "none", y |-> <<>>, t |-> 0, dydt |-> <<>>]

--------------------------------------------------------------------------
(* Actions *)

Init ==
    /\ cls = "none"
    /\ self = [a \in {} |-> 0]
    /\ lastCall = "none"
    /\ args = <<>>
    /\ raised = "none"
    /\ istate = "none"
    /\ plotted = <<>>
    /\ call = NoCall
    /\ sims = "none"

Constructed(c, obj) ==
    /\ cls = "none"
    /\ cls' = c
    /\ self' = obj
    /\ lastCall' = "__init__"
    /\ args' = <<>>
    /\ raised' = "none"
    /\ plotted' = <<>>
    /\ UNCHANGED <<istate, call, sims>>

ConstructSEIR(B, R, ICs) ==
    \E beta \in B, gamma \in R, sigma \in R, ic \in ICs :
        Constructed("SEIRModel", SEIRModel_init(beta, gamma, sigma, ic))

ConstructSeasonal(B, A, R, ICs) ==
    \E beta0 \in B, beta1 \in A, gamma \in R, sigma \in R, ic \in ICs :
        Constructed("SEIRModelWithSeasonality",
                    SEIRModelWithSeasonality_init(beta0, beta1, gamma, sigma, ic))

ConstructSIR(B, R, ICs) ==
    \E beta \in B, gamma \in R, mu \in R, ic \in ICs :
        Constructed("SIRWithDemography", SIRWithDemography_init(beta, gamma, mu, ic))

simulate(obj, c, t, failAt, junk) ==
    CASE c = "SEIRModel" -> SEIRModel_simulate(obj, t, failAt, junk)
      [] c = "SEIRModelWithSeasonality" ->
            SEIRModelWithSeasonality_simulate(obj, t, failAt, junk)
      [] c = "SIRWithDemography" -> SIRWithDemography_simulate(obj, t, failAt, junk)

Simulate ==
    \E t \in Grids, failAt \in 0..(MaxLen - 1), junk \in JunkVals :
        /\ cls \in Classes
        /\ failAt < Len(t)
        /\ failAt = 0 => junk = 0
        /\ self' = simulate(self, cls, t, failAt, junk)
        /\ lastCall' = "simulate"
        /\ args' = t
        /\ raised' = "none"
        /\ istate' = IF failAt = 0 THEN "ok" ELSE "failed"
        /\ plotted' = <<>>
        /\ sims' = IF sims = "none" THEN "one" ELSE "many"
        /\ UNCHANGED <<cls, call>>

Plotted(method, t, out) ==
    /\ lastCall' = method
    /\ args' = t
    /\ raised' = out.raised
    /\ plotted' = out.plotted
    /\ UNCHANGED <<cls, self, istate, call, sims>>

PlotResults ==
    \E t \in Grids :
        /\ cls \in Classes
        /\ Plotted("plot_results", t,
                   CASE cls = "SIRWithDemography" ->
                            SIRWithDemography_plot_results(self, t)
                     [] cls = "SEIRModelWithSeasonality" ->
                            SEIRModelWithSeasonality_plot_results(self, t)
                     [] cls = "SEIRModel" -> SEIRModel_plot_results(self, t))

PlotPhasePortrait ==
    /\ cls \in Classes
    /\ Plotted("plot_phase_portrait", <<>>,
               IF cls = "SIRWithDemography"
               THEN SIRWithDemography_plot_phase_portrait(self)
               ELSE SEIRModel_plot_phase_portrait(self))

PlotFourierTransform ==
    \E t \in Grids :
        /\ cls \in SEIRClasses
        /\ Plotted("plot_fourier_transform", t,
                   SEIRModel_plot_fourier_transform(self, t))

\* Constructor arguments tried in the life cycle of an instance
LifeBetas == {-1, 1}
LifeRates == {1}
LifeAmps == {0, 1}

\* ... with nobody recovered at the start, as in the example scripts
LifeICs(n) == {y \in InitialConditions(n) : y[n] = 0}

Construct ==
    \/ ConstructSEIR(LifeBetas, LifeRates, LifeICs(4))
    \/ ConstructSeasonal(LifeBetas, LifeAmps, LifeRates, LifeICs(4))
    \/ ConstructSIR(LifeBetas, LifeRates, LifeICs(3))

Next ==
    \/ Construct
    \/ Simulate
    \/ PlotResults
    \/ PlotPhasePortrait
    \/ PlotFourierTransform

Spec == Init /\ [][Next]_vars

--------------------------------------------------------------------------
(* The derivative functions taken alone: an instance of any class, a state *)
(* y (at scale Unit) and a time t are drawn, and the instance's derivative *)
(* methods are evaluated on them.  SEIRModelWithSeasonality inherits       *)
(* seir_equations from SEIRModel.                                          *)

EvalTimes == {0, 1, 2, 3}

\* States the derivatives are evaluated on: non-negative fractions whose
\* total is at most 1 + 1/Unit (so totals other than 1 are included)
EvalStates(n) == {y \in Tuples(n, 0..Unit) : SumSeq(y) <= Unit + 1}

Drawn(c, obj, y, t) ==
    /\ cls = c
    /\ self = obj
    /\ lastCall = "__init__"
    /\ args = <<>>
    /\ raised = "none"
    /\ istate = "none"
    /\ plotted = <<>>
    /\ call = [method |-> "none", y |-> y, t |-> t, dydt |-> <<>>]
    /\ sims = "none"

FirstIC(n) == [i \in 1..n |-> IF i = 1 THEN Unit ELSE 0]

InitEq ==
    \E t \in EvalTimes :
        \/ \E beta \in Rates, gamma \in Rates, sigma \in Rates,
              y \in EvalStates(4) :
                Drawn("SEIRModel",
                      SEIRModel_init(beta, gamma, sigma, FirstIC(4)), y, t)
        \/ \E beta0 \in Rates, beta1 \in Amps, gamma \in Rates, sigma \in Rates,
              y \in EvalStates(4) :
                Drawn("SEIRModelWithSeasonality",
                      SEIRModelWithSeasonality_init(beta0, beta1, gamma, sigma,
                                                    FirstIC(4)), y, t)
        \/ \E beta \in Rates, gamma \in Rates, mu \in Rates,
              y \in EvalStates(3) :
                Drawn("SIRWithDemography",
                      SIRWithDemography_init(beta, gamma, mu, FirstIC(3)), y, t)

Evaluated(method, dydt) ==
    /\ call.method = "none"
    /\ call' = [call EXCEPT !.method = method, !.dydt = dydt]
    /\ UNCHANGED <<cls, self, lastCall, args, raised, istate, plotted, sims>>

EvalSeir ==
    /\ cls \in SEIRClasses
    /\ Evaluated("seir_equations", seir_equations(self, call.y, call.t, Unit))

EvalSeasonal ==
    /\ cls = "SEIRModelWithSeasonality"
    /\ Evaluated("seir_seasonal_equations",
                 seir_seasonal_equations(self, call.y, call.t, Unit))

EvalSir ==
    /\ cls = "SIRWithDemography"
    /\ Evaluated("sir_demography_equations",
                 sir_demography_equations(self, call.y, call.t, Unit))

NextEq ==
    \/ EvalSeir
    \/ EvalSeasonal
    \/ EvalSir

SpecEq == InitEq /\ [][NextEq]_vars

--------------------------------------------------------------------------
(* Properties *)

\* The trajectory the integrator returns when it succeeds
Trajectory(func, y0, t) == odeint(func, y0, t, 0, 0)

\* The grid of MaxLen points that starts at the time of the evaluation
EvalGrid == Grid(call.t, MaxLen)

\* Every row of traj (at scale ResultScale) has the total of y0 (at scale Unit)
KeepsTotal(traj, y0) ==
    \A k \in 1..Len(traj) :
        SumSeq(traj[k]) * Unit = SumSeq(y0) * ResultScale(Len(traj))

\* The derivative method simulate hands to odeint, by class
DerivativeOf(c) ==
    CASE c = "SEIRModel" -> "seir_equations"
      [] c = "SEIRModelWithSeasonality" -> "seir_seasonal_equations"
      [] c = "SIRWithDemography" -> "sir_demography_equations"

\* The plain SEIR model with the instance's beta, gamma and sigma
BaseOf(obj) ==
    SEIRModel_init(obj.beta, obj.gamma, obj.sigma, obj.initial_conditions)

PlotMethods == {"plot_results", "plot_phase_portrait", "plot_fourier_transform"}

\* C1: for every state, time and parameter choice the four components that
\* seir_equations and seir_seasonal_equations return sum to exactly zero,
\* and the trajectory integrated from that state keeps the state's total
\* S+E+I+R at every time point (1 when it starts at 1).
C1_Conservation ==
    call.method \in {"seir_equations", "seir_seasonal_equations"} =>
        /\ SumSeq(call.dydt) = 0
        /\ KeepsTotal(Trajectory(BoundMethod(call.method, self), call.y, EvalGrid),
                      call.y)

C1_Witness ==
    /\ call.method = "seir_seasonal_equations"
    /\ self.beta1 # 0
    /\ SumSeq(call.y) = Unit
    /\ \A i \in 1..4 : call.dydt[i] # 0

\* C2: for every state with S+I+R = 1 and every beta, gamma, mu the three
\* components sir_demography_equations returns sum to zero, and the
\* trajectory integrated from that state has S+I+R = 1 at every time point.
C2_DemographyConservation ==
    (call.method = "sir_demography_equations" /\ SumSeq(call.y) = Unit) =>
        /\ SumSeq(call.dydt) = 0
        /\ KeepsTotal(Trajectory(BoundMethod(call.method, self), call.y, EvalGrid),
                      call.y)

C2_Witness ==
    /\ call.method = "sir_demography_equations"
    /\ SumSeq(call.y) = Unit
    /\ self.mu > 0
    /\ \A i \in 1..3 : call.dydt[i] # 0

\* C3: with beta1 = 0 seir_seasonal_equations returns, for every state and
\* time, the derivative seir_equations returns for the plain SEIR model with
\* beta = beta0 and the same gamma and sigma, and both give the same
\* trajectory; for any beta1 the two differ in the S and E components only.
C3_SeasonalityReducesToBase ==
    call.method = "seir_seasonal_equations" =>
        LET base == seir_equations(BaseOf(self), call.y, call.t, Unit)
        IN  /\ call.dydt[3] = base[3]
            /\ call.dydt[4] = base[4]
            /\ self.beta1 = 0 =>
                /\ call.dydt = base
                /\ Trajectory(BoundMethod("seir_seasonal_equations", self),
                              call.y, EvalGrid)
                   = Trajectory(BoundMethod("seir_equations", BaseOf(self)),
                                call.y, EvalGrid)

C3_Witness ==
    /\ call.method = "seir_seasonal_equations"
    /\ self.beta1 = 0
    /\ cos_2pi_t_365(call.t) # 0
    /\ call.dydt[1] # 0
    /\ call.dydt[2] # 0

\* C4: whenever I = 0 the infected derivative sir_demography_equations
\* returns is 0, for every S, R, t and parameter choice, and the trajectory
\* integrated from that state has I = 0 at every time point.
C4_DiseaseFreeBoundary ==
    (call.method = "sir_demography_equations" /\ call.y[2] = 0) =>
        /\ call.dydt[2] = 0
        /\ LET traj == Trajectory(BoundMethod(call.method, self), call.y, EvalGrid)
           IN  \A k \in 1..Len(traj) : traj[k][2] = 0

C4_Witness ==
    /\ call.method = "sir_demography_equations"
    /\ call.y[2] = 0
    /\ call.y[1] > 0
    /\ self.beta > 0
    /\ call.dydt[1] # 0
    /\ call.dydt[3] # 0

\* A rate constant is valid when it is not negative, a transmission rate
\* when it is strictly positive
ValidParameters(obj) ==
    /\ obj.beta > 0
    /\ obj.gamma >= 0
    /\ "sigma" \in DOMAIN obj => obj.sigma >= 0
    /\ "mu" \in DOMAIN obj => obj.mu >= 0

\* C5: construction with a negative rate constant (or a transmission rate
\* that is not strictly positive) fails with InvalidParameterError, so no
\* model instance holds such a parameter.
C5_RejectsInvalidParameter ==
    cls \in Classes => ValidParameters(self)

\* C6: construction with initial conditions that hold a negative fraction or
\* do not sum to 1 fails with InvalidInitialConditionError, so no instance
\* holds such initial conditions and simulate never starts from them.
C6_RejectsInvalidInitialCondition ==
    cls \in Classes => ValidIC(self.initial_conditions)

\* An instance the specification's validation rules would accept
ValidModel ==
    /\ cls \in Classes
    /\ ValidParameters(self)
    /\ ValidIC(self.initial_conditions)

\* C7: when the solver cannot meet its constraints simulate raises
\* IntegrationError; a failed integration never ends as a normal return
\* (stated here for instances with valid parameters and initial conditions).
C7_SolverFailureRaises ==
    (ValidModel /\ lastCall = "simulate" /\ istate = "failed") =>
        raised = "IntegrationError"

\* C8: every simulate leaves as stored result one row per point of its own
\* time grid, the first row being the initial conditions (and, when the
\* solver succeeds, exactly the trajectory of that call), whatever was
\* stored before; it leaves the class, the parameters and the initial
\* conditions unchanged.
C8_SimulateReplaces ==
    [][lastCall' = "simulate" =>
        /\ cls' = cls
        /\ DOMAIN self' = DOMAIN self \cup {"results"}
        /\ \A a \in DOMAIN self \ {"results"} : self'[a] = self[a]
        /\ Len(self'.results) = Len(args')
        /\ \A i \in 1..NCols(cls) :
              self'.results[1][i] * Unit
                  = self.initial_conditions[i] * ResultScale(Len(args'))
        /\ istate' = "ok" =>
              self'.results = Trajectory(BoundMethod(DerivativeOf(cls), self),
                                         self.initial_conditions, args')
      ]_vars

C8_Witness ==
    /\ sims = "many"
    /\ lastCall = "simulate"
    /\ istate = "ok"
    /\ Len(self.results) = 1

\* C9: for an SEIR model with a stored result plot_phase_portrait returns
\* without error and plots Susceptible (column 0) against Infected
\* (column 2), each subsampled to every 10th time point (stated here for
\* valid instances whose last integration succeeded).
C9_PhasePortraitPlotsSvsI ==
    (/\ ValidModel
     /\ cls = "SEIRModel"
     /\ istate = "ok"
     /\ lastCall = "plot_phase_portrait"
     /\ HasResults(self)) =>
        /\ raised = "none"
        /\ LET c == Transpose(self.results, 4)
           IN  plotted = <<Line(SliceStep(c[1], 10), SliceStep(c[3], 10),
                                "Phase Portrait")>>

\* C10: an instance holds a result exactly when simulate has completed on
\* it: construction creates none, a plotting method called before the first
\* simulate fails with AttributeError, and after a simulate the plotting
\* methods always find a result.
C10_ResultOnlyAfterSimulate ==
    /\ cls \in Classes => (HasResults(self) <=> sims # "none")
    /\ lastCall = "__init__" => ~HasResults(self)
    /\ lastCall \in PlotMethods => (raised = "AttributeError" <=> sims = "none")

C10_Witness ==
    /\ lastCall \in PlotMethods
    /\ cls \in SEIRClasses
    /\ sims = "none"
    /\ raised = "AttributeError"

==========================================================================
